---- MODULE Spec2Model ----
(***************************************************************************)
(* Statevector simulation core of the quantum circuit designer             *)
(* (src/src/App.tsx, lines 6-122): complex arithmetic, the gate operators   *)
(* applyX / applyH / applyCX / apply1Q, probsFromState and the driver       *)
(* simulateCircuit.                                                         *)
(*                                                                          *)
(* Numbers.  The source computes with IEEE doubles, and so does the model:  *)
(* a number is a sign, a 53-digit mantissa and an exponent, and every sum   *)
(* and product is rounded to the nearest double.  SQRT1_2 is the double     *)
(* Math.SQRT1_2, whose square is not 1/2 but the double next above it, so   *)
(* properties of Hadamard gates hold within a tolerance, not exactly.       *)
(***************************************************************************)
EXTENDS Integers, Sequences, FiniteSets, TLC

----------------------------------------------------------------------------
(* Bounds of the model *)

\* largest qubit count on which gate operators are exercised
MaxQubits == 3
\* number of gate applications in one run of the gate-operator specification
MaxOps == 2
\* largest qubit count of a circuit handed to the driver
MaxDocQubits == 2
\* largest number of gates in a circuit handed to the driver
MaxDocGates == 2

\* largest qubit count of an array handed to the sampler
MaxSampleQubits == 4
\* largest qubit count of the sampler's arrays of quarters
MaxDyadicQubits == 2
\* largest shot count handed to the sampler
MaxShots == 2

\* largest qubit count typed into the editor's Qubits field
MaxEdQubits == 2
\* number of editor operations in one run of the editor specification
MaxEdits == 3

\* largest qubit count of the circuit two calls of the driver share
MaxCallQubits == 2
\* largest number of gates of the circuit two calls of the driver share
MaxCallGates == 2

\* the qubit count the surrounding editor never exceeds (setQubits clamp)
QubitCap == 12
\* the shot count the Shots field starts with
DefaultShots == 512
\* the max attribute of the Shots field
ShotCap == 100000

----------------------------------------------------------------------------
(* Integer bit operations of the source: 1 << t, i & bit, i | bit *)

RECURSIVE Pow2(_)
Pow2(t) == IF t <= 0 THEN 1 ELSE 2 * Pow2(t - 1)

\* 1 << t in 32-bit integers: the shift count is taken modulo 32
Shl1(t) == IF t % 32 = 31 THEN (0 - 2147483647) - 1 ELSE Pow2(t % 32)

RECURSIVE BitAnd(_, _)
BitAnd(x, y) ==
    IF x = 0 \/ y = 0 THEN 0
    ELSE (x % 2) * (y % 2) + 2 * BitAnd(x \div 2, y \div 2)

RECURSIVE BitOr(_, _)
BitOr(x, y) ==
    IF x = 0 THEN y
    ELSE IF y = 0 THEN x
    ELSE (IF x % 2 = 1 \/ y % 2 = 1 THEN 1 ELSE 0) + 2 * BitOr(x \div 2, y \div 2)

----------------------------------------------------------------------------
(* Natural numbers of any size: the sequence of their limbs in base 2^14,   *)
(* least significant first, without a leading zero limb (0 is <<>>).  The   *)
(* mantissas of doubles and their exact products and sums are kept in them. *)

\* the sum of four products of limbs and a carry stays below 2^31
Base == 2 ^ 14

RECURSIVE BTrim(_)
BTrim(x) ==
    IF x # <<>> /\ x[Len(x)] = 0 THEN BTrim(SubSeq(x, 1, Len(x) - 1)) ELSE x

BDigit(x, i) == IF i >= 1 /\ i <= Len(x) THEN x[i] ELSE 0

RECURSIVE BCarryFrom(_, _, _)

\* the limb t % Base, the carry (or borrow) t \div Base going to the next limb
BCarryLimb(v, i, t) == <<t % Base>> \o BCarryFrom(v, i + 1, t \div Base)

BCarryFrom(v, i, carry) ==
    IF i > Len(v) THEN (IF carry = 0 THEN <<>> ELSE <<carry>>)
    ELSE BCarryLimb(v, i, v[i] + carry)

\* the number whose limbs, before the carries are passed on, are v
BCarry(v) == BTrim(BCarryFrom(v, 1, 0))

\* x + y
BAdd(x, y) ==
    BCarry([i \in 1 .. (IF Len(x) > Len(y) THEN Len(x) ELSE Len(y)) |->
               BDigit(x, i) + BDigit(y, i)])

\* x - y, for x >= y
BSub(x, y) == BCarry([i \in 1 .. Len(x) |-> x[i] - BDigit(y, i)])

RECURSIVE BCmpAt(_, _, _)
BCmpAt(x, y, i) ==
    IF i = 0 THEN 0
    ELSE IF x[i] > y[i] THEN 1
    ELSE IF x[i] < y[i] THEN 0 - 1
    ELSE BCmpAt(x, y, i - 1)

\* the sign of x - y
BCmp(x, y) ==
    IF Len(x) > Len(y) THEN 1
    ELSE IF Len(x) < Len(y) THEN 0 - 1
    ELSE BCmpAt(x, y, Len(x))

\* x * y, for the mantissas x and y of two doubles (four limbs each): limb k
\* collects the products x[i] * y[j] with i + j = k + 1
BMul(x, y) ==
    BCarry(<<x[1] * y[1],
             x[1] * y[2] + x[2] * y[1],
             x[1] * y[3] + x[2] * y[2] + x[3] * y[1],
             x[1] * y[4] + x[2] * y[3] + x[3] * y[2] + x[4] * y[1],
             x[2] * y[4] + x[3] * y[3] + x[4] * y[2],
             x[3] * y[4] + x[4] * y[3],
             x[4] * y[4]>>)

\* the number of binary digits of a limb
SmallBits(d) == Cardinality({k \in 0 .. 13 : d >= 2 ^ k})

\* the number of binary digits of x
BBits(x) == IF x = <<>> THEN 0 ELSE 14 * (Len(x) - 1) + SmallBits(x[Len(x)])

\* x * 2^n
BShl(x, n) ==
    IF n = 0 \/ x = <<>> THEN x
    ELSE [i \in 1 .. (n \div 14) |-> 0]
         \o BCarry([i \in 1 .. Len(x) |-> x[i] * (2 ^ (n % 14))])

\* floor(x / lo) for lo = 2^r, r < 14, and hi = 2^(14 - r)
BShrBy(x, lo, hi) ==
    BTrim([i \in 1 .. Len(x) |-> (x[i] \div lo) + (BDigit(x, i + 1) % lo) * hi])

\* floor(x / 2^n)
BShr(x, n) ==
    IF n \div 14 >= Len(x) THEN <<>>
    ELSE BShrBy(SubSeq(x, (n \div 14) + 1, Len(x)), 2 ^ (n % 14), 2 ^ (14 - (n % 14)))

\* binary digit j of x, digit 0 being the lowest
BBit(x, j) == (BDigit(x, (j \div 14) + 1) \div (2 ^ (j % 14))) % 2

\* x mod 2^n = 0
BLowZero(x, n) ==
    /\ \A i \in 1 .. (n \div 14) : BDigit(x, i) = 0
    /\ BDigit(x, (n \div 14) + 1) % (2 ^ (n % 14)) = 0

----------------------------------------------------------------------------
(* Numbers.  A JavaScript number is an IEEE double: a sign s, a mantissa m  *)
(* of 53 binary digits and an exponent e, with value (-1)^s * m * 2^e; zero *)
(* has the empty mantissa and keeps its sign.  Sums and products are formed *)
(* exactly and rounded to the nearest double, ties to the even mantissa, as *)
(* the source's + and * do.  (Exponents stay far from the subnormal and the *)
(* overflow range for the amplitudes of circuits.)                          *)

\* the double with mantissa q, or the next power of two (mantissa 2^52) when
\* q has grown to 54 digits
RoundCarry(s, q, e) ==
    IF BBits(q) > 53 THEN [s |-> s, m |-> <<0, 0, 0, 1024>>, e |-> e + 1]
    ELSE [s |-> s, m |-> q, e |-> e]

\* q kept or raised by one: cmp is the sign of (dropped digits - half a unit
\* of q), and a tie goes to the even mantissa
RoundPick(s, q, e, cmp) ==
    IF cmp = 1 \/ (cmp = 0 /\ q[1] % 2 = 1) THEN RoundCarry(s, BAdd(q, <<1>>), e)
    ELSE [s |-> s, m |-> q, e |-> e]

\* the double nearest to (-1)^s * M * 2^E for M of 53 + n digits, n > 0: the
\* n dropped digits are below, at or above half a unit of the kept ones
RoundDrop(s, M, E, n) ==
    RoundPick(s, BShr(M, n), E + n,
              IF BBit(M, n - 1) = 0 THEN 0 - 1
              ELSE IF BLowZero(M, n - 1) THEN 0 ELSE 1)

\* the double nearest to (-1)^s * M * 2^E for M of L digits
RoundTo(s, M, E, L) ==
    IF L = 0 THEN [s |-> s, m |-> <<>>, e |-> 0]
    ELSE IF L <= 53 THEN [s |-> s, m |-> BShl(M, 53 - L), e |-> E - (53 - L)]
    ELSE RoundDrop(s, M, E, L - 53)

\* the double nearest to (-1)^s * M * 2^E
Round(s, M, E) == RoundTo(s, M, E, BBits(M))

\* the number literal i, for an integer below 2^14 in magnitude
Num(i) == Round(IF i < 0 THEN 1 ELSE 0, BTrim(<<IF i < 0 THEN 0 - i ELSE i>>), 0)

\* the exact difference of two magnitudes at a common exponent, cmp being the
\* sign of mx - my: the sign is that of the larger magnitude, and x - x is +0
DiffAligned(sx, mx, sy, my, e, cmp) ==
    IF cmp = 0 THEN [s |-> 0, m |-> <<>>, e |-> 0]
    ELSE [s |-> IF cmp = 1 THEN sx ELSE sy,
          m |-> BSub(IF cmp = 1 THEN mx ELSE my, IF cmp = 1 THEN my ELSE mx),
          e |-> e]

\* the exact sum of two numbers given at a common exponent
SumAligned(sx, mx, sy, my, e) ==
    IF sx = sy THEN [s |-> sx, m |-> BAdd(mx, my), e |-> e]
    ELSE DiffAligned(sx, mx, sy, my, e, BCmp(mx, my))

\* x + y as a real number: a sign, a mantissa of any length and an exponent
ExactAdd(x, y) ==
    IF x.m = <<>> THEN (IF y.m = <<>> THEN [s |-> 0, m |-> <<>>, e |-> 0] ELSE y)
    ELSE IF y.m = <<>> THEN x
    ELSE SumAligned(x.s, BShl(x.m, IF x.e > y.e THEN x.e - y.e ELSE 0),
                    y.s, BShl(y.m, IF y.e > x.e THEN y.e - x.e ELSE 0),
                    IF x.e > y.e THEN y.e ELSE x.e)

\* the rounding of a real number given as by ExactAdd
Rounded(z) == Round(z.s, z.m, z.e)

\* x + y: the exact sum, rounded; a zero term leaves the other as it is
NAdd(x, y) ==
    IF x.m = <<>> /\ y.m = <<>>
    THEN [s |-> IF x.s = 1 /\ y.s = 1 THEN 1 ELSE 0, m |-> <<>>, e |-> 0]
    ELSE IF x.m = <<>> THEN y
    ELSE IF y.m = <<>> THEN x
    ELSE Rounded(ExactAdd(x, y))

\* -x
NNeg(x) == [s |-> 1 - x.s, m |-> x.m, e |-> x.e]

\* x - y
NSub(x, y) == NAdd(x, NNeg(y))

\* x * y: the exact product, rounded; a factor that is a power of two
\* (mantissa 2^52) only moves the exponent
NMul(x, y) ==
    IF x.m = <<>> \/ y.m = <<>>
    THEN [s |-> (x.s + y.s) % 2, m |-> <<>>, e |-> 0]
    ELSE IF y.m = <<0, 0, 0, 1024>>
    THEN [s |-> (x.s + y.s) % 2, m |-> x.m, e |-> x.e + y.e + 52]
    ELSE IF x.m = <<0, 0, 0, 1024>>
    THEN [s |-> (x.s + y.s) % 2, m |-> y.m, e |-> x.e + y.e + 52]
    ELSE Round((x.s + y.s) % 2, BMul(x.m, y.m), x.e + y.e)

\* variant of SQRT1_2: the constant 1/2 in place of Math.SQRT1_2
SQRT1_2_half == [s |-> 0, m |-> <<0, 0, 0, 1024>>, e |-> 0 - 53]

\* Math.SQRT1_2 = 0.7071067811865476 = 6369051672525773 * 2^-53
SQRT1_2 == [s |-> 0, m |-> <<15309, 6652, 2534, 1448>>, e |-> 0 - 53]

----------------------------------------------------------------------------
(* Complex arithmetic *)

c(re, im) == [re |-> re, im |-> im]

add(x, y) == c(NAdd(x.re, y.re), NAdd(x.im, y.im))

mul(x, y) ==
    c(NSub(NMul(x.re, y.re), NMul(x.im, y.im)),
      NAdd(NMul(x.re, y.im), NMul(x.im, y.re)))

norm2(x) == NAdd(NMul(x.re, x.re), NMul(x.im, x.im))

----------------------------------------------------------------------------
(* Arrays.  A statevector is a function on the keys the array holds,        *)
(* 0 .. N-1 for a well-formed one.  Reading a key the array does not hold   *)
(* gives undefined; writing one adds it (and leaves holes below it).  A     *)
(* negative key is a property of the object and no element of the array:    *)
(* it does not count for length and map does not visit it.                  *)

\* the value undefined
Undefined == [undef |-> TRUE]

\* the outcome "a TypeError was thrown": reading .re or .im of undefined
TypeError == [i \in {0 - 1} |-> Undefined]

Threw(x) == DOMAIN x = {0 - 1}

RECURSIVE MaxOf(_)
MaxOf(S) ==
    LET x == CHOOSE y \in S : TRUE
    IN  IF S = {x} THEN x
        ELSE LET m == MaxOf(S \ {x}) IN IF x > m THEN x ELSE m

\* the keys that are array indices
Indices(st) == {i \in DOMAIN st : i >= 0}

\* st.length
length(st) == IF Indices(st) = {} THEN 0 ELSE MaxOf(Indices(st)) + 1

\* st[j]
get(st, j) == IF j \in DOMAIN st THEN st[j] ELSE Undefined

\* st[j] = v
put(st, j, v) == [k \in DOMAIN st \cup {j} |-> IF k = j THEN v ELSE st[k]]

----------------------------------------------------------------------------
(* Statevector engine *)

\* variant of zeroState: N = 2 * nQubits in place of 1 << nQubits
zeroState_linear(nQubits) ==
    LET N == 2 * nQubits
        st == [i \in 0 .. N - 1 |-> c(Num(0), Num(0))]
    IN  put(st, 0, c(Num(1), Num(0)))

\* Array.from({length: N}) is empty when N <= 0
zeroState(nQubits) ==
    LET N == Shl1(nQubits)
        st == [i \in (IF N <= 0 THEN {} ELSE 0 .. N - 1) |-> c(Num(0), Num(0))]
    IN  put(st, 0, c(Num(1), Num(0)))

\* variant of apply1QLoop: r1 is computed after st[i] was overwritten with r0
RECURSIVE apply1QLoop_stale(_, _, _, _, _, _, _, _)
apply1QLoop_stale(st, N, i, bit, m00, m01, m10, m11) ==
    IF i >= N THEN st
    ELSE IF BitAnd(i, bit) = 0
    THEN LET j == BitOr(i, bit)
             a0 == get(st, i)
             a1 == get(st, j)
         IN  IF a0 = Undefined \/ a1 = Undefined THEN TypeError
             ELSE LET r0 == add(mul(m00, a0), mul(m01, a1))
                      r1 == add(mul(m10, r0), mul(m11, a1))
                  IN  apply1QLoop_stale(put(put(st, i, r0), j, r1), N, i + 1, bit,
                                        m00, m01, m10, m11)
    ELSE apply1QLoop_stale(st, N, i + 1, bit, m00, m01, m10, m11)

\* the loop of apply1Q from index i on, st being the array as mutated so far
\* and N its length when apply1Q was entered; mul throws on an undefined
\* amplitude
RECURSIVE apply1QLoop(_, _, _, _, _, _, _, _)
apply1QLoop(st, N, i, bit, m00, m01, m10, m11) ==
    IF i >= N THEN st
    ELSE IF BitAnd(i, bit) = 0
    THEN LET j == BitOr(i, bit)
             a0 == get(st, i)
             a1 == get(st, j)
         IN  IF a0 = Undefined \/ a1 = Undefined THEN TypeError
             ELSE LET r0 == add(mul(m00, a0), mul(m01, a1))
                      r1 == add(mul(m10, a0), mul(m11, a1))
                  IN  apply1QLoop(put(put(st, i, r0), j, r1), N, i + 1, bit,
                                  m00, m01, m10, m11)
    ELSE apply1QLoop(st, N, i + 1, bit, m00, m01, m10, m11)

apply1Q(st, t, m00, m01, m10, m11) ==
    apply1QLoop(st, length(st), 0, Shl1(t), m00, m01, m10, m11)

\* variant of applyXLoop: the swap without the temporary
RECURSIVE applyXLoop_notmp(_, _, _, _)
applyXLoop_notmp(st, N, i, bit) ==
    IF i >= N THEN st
    ELSE IF BitAnd(i, bit) = 0
    THEN LET j == BitOr(i, bit)
         IN  applyXLoop_notmp(put(put(st, i, get(st, j)), j, get(st, j)), N, i + 1, bit)
    ELSE applyXLoop_notmp(st, N, i + 1, bit)

RECURSIVE applyXLoop(_, _, _, _)
applyXLoop(st, N, i, bit) ==
    IF i >= N THEN st
    ELSE IF BitAnd(i, bit) = 0
    THEN LET j == BitOr(i, bit)
             tmp == get(st, i)
         IN  applyXLoop(put(put(st, i, get(st, j)), j, tmp), N, i + 1, bit)
    ELSE applyXLoop(st, N, i + 1, bit)

\* variant of applyX: qubit 0 taken as the most significant bit
applyX_msb(st, t) == applyXLoop(st, length(st), 0, length(st) \div Shl1(t + 1))

applyX(st, t) == applyXLoop(st, length(st), 0, Shl1(t))

\* variant of applyH: m11 = +s in place of -s
applyH_plus(st, t) ==
    LET s == SQRT1_2
    IN  apply1Q(st, t, c(s, Num(0)), c(s, Num(0)), c(s, Num(0)), c(s, Num(0)))

applyH(st, t) ==
    LET s == SQRT1_2
    IN  apply1Q(st, t, c(s, Num(0)), c(s, Num(0)), c(s, Num(0)), c(NNeg(s), Num(0)))

\* variant of applyCXLoop: the control bit is not tested
RECURSIVE applyCXLoop_noctl(_, _, _, _, _)
applyCXLoop_noctl(st, N, i, cbit, tbit) ==
    IF i >= N THEN st
    ELSE IF BitAnd(i, tbit) = 0
    THEN LET j == BitOr(i, tbit)
             tmp == get(st, i)
         IN  applyCXLoop_noctl(put(put(st, i, get(st, j)), j, tmp), N, i + 1, cbit, tbit)
    ELSE applyCXLoop_noctl(st, N, i + 1, cbit, tbit)

\* variant of applyCXLoop: the two bit tests joined by "or"
RECURSIVE applyCXLoop_or(_, _, _, _, _)
applyCXLoop_or(st, N, i, cbit, tbit) ==
    IF i >= N THEN st
    ELSE IF BitAnd(i, cbit) # 0 \/ BitAnd(i, tbit) = 0
    THEN LET j == BitOr(i, tbit)
             tmp == get(st, i)
         IN  applyCXLoop_or(put(put(st, i, get(st, j)), j, tmp), N, i + 1, cbit, tbit)
    ELSE applyCXLoop_or(st, N, i + 1, cbit, tbit)

RECURSIVE applyCXLoop(_, _, _, _, _)
applyCXLoop(st, N, i, cbit, tbit) ==
    IF i >= N THEN st
    ELSE IF BitAnd(i, cbit) # 0 /\ BitAnd(i, tbit) = 0
    THEN LET j == BitOr(i, tbit)
             tmp == get(st, i)
         IN  applyCXLoop(put(put(st, i, get(st, j)), j, tmp), N, i + 1, cbit, tbit)
    ELSE applyCXLoop(st, N, i + 1, cbit, tbit)

\* variant of applyCX: control and target exchanged
applyCX_swapped(st, control, target) ==
    applyCXLoop(st, length(st), 0, Shl1(target), Shl1(control))

applyCX(st, control, target) ==
    applyCXLoop(st, length(st), 0, Shl1(control), Shl1(target))

\* st.map(norm2): holes and the keys that are no indices are skipped, norm2
\* throws on an undefined element
probsFromState(st) ==
    IF \E i \in Indices(st) : st[i] = Undefined THEN TypeError
    ELSE [i \in Indices(st) |-> norm2(st[i])]

----------------------------------------------------------------------------
(* Circuit model and simulation driver *)

\* GateType
GateTypes == {"H", "X", "CX", "MEASURE"}

\* variant of applyGate: the chain ends in a plain else that flips the qubit
applyGate_elseX(st, g) ==
    IF g.type = "H" THEN applyH(st, g.targets[1])
    ELSE IF g.type = "CX" THEN applyCX(st, g.targets[1], g.targets[2])
    ELSE applyX(st, g.targets[1])

\* the if / else-if chain of simulateCircuit: MEASURE matches no branch.
\* g.targets is a sequence, so targets[0] of the source is g.targets[1] here.
applyGate(st, g) ==
    IF g.type = "H" THEN applyH(st, g.targets[1])
    ELSE IF g.type = "X" THEN applyX(st, g.targets[1])
    ELSE IF g.type = "CX" THEN applyCX(st, g.targets[1], g.targets[2])
    ELSE st

\* variant of simulateGates: the gates of a moment are visited last to first
RECURSIVE simulateGates_rev(_, _, _, _)
simulateGates_rev(st, gates, gi, log) ==
    IF gi > Len(gates) \/ Threw(st) THEN [st |-> st, applied |-> log]
    ELSE LET k == Len(gates) + 1 - gi
         IN  simulateGates_rev(applyGate(st, gates[k]), gates, gi + 1,
                               Append(log, gates[k].id))

\* for (const g of m.gates), from the gi-th gate on; log records the ids of
\* the gates dispatched so far, in the order they were dispatched.  A throw
\* leaves the loops at once.
RECURSIVE simulateGates(_, _, _, _)
simulateGates(st, gates, gi, log) ==
    IF gi > Len(gates) \/ Threw(st) THEN [st |-> st, applied |-> log]
    ELSE simulateGates(applyGate(st, gates[gi]), gates, gi + 1,
                       Append(log, gates[gi].id))

RECURSIVE simulateMoments(_, _, _, _)

\* the outer loop goes on to the mi-th moment with what the inner loop left
nextMoment(r, moments, mi) == simulateMoments(r.st, moments, mi, r.applied)

\* for (const m of circ.moments), from the mi-th moment on
simulateMoments(st, moments, mi, log) ==
    IF mi > Len(moments) \/ Threw(st) THEN [st |-> st, applied |-> log]
    ELSE nextMoment(simulateGates(st, moments[mi].gates, 1, log), moments, mi + 1)

\* the statevector simulateCircuit holds after its loops, and the gates it dispatched
simulateRun(circ) ==
    simulateMoments(zeroState(circ.nQubits), circ.moments, 1, <<>>)

\* return { probs: probsFromState(st) }, reached when the loops did not throw
returnProbs(st) == IF Threw(st) THEN st ELSE probsFromState(st)

\* what the caller gets: the object {probs}, or the TypeError thrown
returned(p) == IF Threw(p) THEN [threw |-> "TypeError"] ELSE [probs |-> p]

\* the value returned, {probs}, or the TypeError that left the function
simulateCircuit(circ) == returned(returnProbs(simulateRun(circ).st))

----------------------------------------------------------------------------
(* Numbers of the sampler.  acc += probs[i] is an addition of doubles, and its
   rounding decides whether the running sum reaches the drawn value.  The
   doubles that are multiples of 2^-54 are kept exactly, as two limbs:
   the value of [h, l] is (h * Limb + l) / 2^54, with 0 <= l < Limb. *)

Limb == 134217728

Dbl(h, l) == [h |-> h, l |-> l]

\* spacing of the doubles around (h * Limb) / 2^54, in units of 2^-54:
\* 1 below 1/2, 2 in [1/2, 1), 4 in [1, 2), ...
RECURSIVE UlpOf(_)
UlpOf(h) == IF h < Limb \div 2 THEN 1 ELSE 2 * UlpOf(h \div 2)

\* the sum of x and y as real numbers (used to say what a distribution is)
DAdd_exact(x, y) ==
    LET l0 == x.l + y.l
    IN  Dbl(x.h + y.h + l0 \div Limb, l0 % Limb)

\* x + y of two doubles: the exact sum rounded to the nearest double, a tie
\* going to the even significand
DAdd(x, y) ==
    LET l0 == x.l + y.l
        h0 == x.h + y.h + l0 \div Limb
        l1 == l0 % Limb
        u == UlpOf(h0)
        rem == l1 % u
        base == l1 - rem
        up == 2 * rem > u \/ (2 * rem = u /\ (base \div u) % 2 = 1)
        l2 == IF up THEN base + u ELSE base
    IN  IF l2 = Limb THEN Dbl(h0 + 1, 0) ELSE Dbl(h0, l2)

\* x <= y
DLe(x, y) == x.h < y.h \/ (x.h = y.h /\ x.l <= y.l)

----------------------------------------------------------------------------
(* Measurement sampler *)

\* Math.log2(N) for N a power of two
RECURSIVE log2(_)
log2(N) == IF N <= 1 THEN 0 ELSE 1 + log2(N \div 2)

\* variant of toString2: least significant digit first
RECURSIVE toString2_lsb(_)
toString2_lsb(i) ==
    IF i < 2 THEN (IF i = 0 THEN "0" ELSE "1")
    ELSE (IF i % 2 = 0 THEN "0" ELSE "1") \o toString2_lsb(i \div 2)

\* i.toString(2)
RECURSIVE toString2(_)
toString2(i) ==
    IF i < 2 THEN (IF i = 0 THEN "0" ELSE "1")
    ELSE toString2(i \div 2) \o (IF i % 2 = 0 THEN "0" ELSE "1")

\* str.padStart(targetLength, pad), pad one character long
RECURSIVE padStart(_, _, _)
padStart(str, targetLength, pad) ==
    IF Len(str) >= targetLength THEN str
    ELSE padStart(pad \o str, targetLength, pad)

\* the for loop over i: the index of the first running sum with r <= acc,
\* -1 when the loop ends without reaching the break
RECURSIVE firstReached(_, _, _, _, _)
firstReached(ps, N, i, acc, r) ==
    IF i >= N THEN 0 - 1
    ELSE LET acc1 == DAdd(acc, ps[i])
         IN  IF DLe(r, acc1) THEN i ELSE firstReached(ps, N, i + 1, acc1, r)

\* counts[key] = (counts[key] || 0) + 1
increment(cs, key) ==
    [k \in DOMAIN cs \cup {key} |->
        IF k = key THEN (IF key \in DOMAIN cs THEN cs[key] ELSE 0) + 1 ELSE cs[k]]

\* one trial: the body of the loop over s, with r the value Math.random() gave
sampleTrial(cs, ps, r) ==
    LET N == length(ps)
        i == firstReached(ps, N, 0, Dbl(0, 0), r)
    IN  IF i = 0 - 1 THEN cs
        ELSE increment(cs, padStart(toString2(i), log2(N), "0"))

----------------------------------------------------------------------------
(* State *)

VARIABLES
    nQ,       \* GateSpec: qubit count of the statevector under test
    origin,   \* GateSpec: how the statevector was made: "zeroState" or "ramp"
    st,       \* GateSpec: the statevector, mutated in place by the operators
    pre,      \* GateSpec: the statevector as it was before the last operator
    last,     \* GateSpec: the last operator applied and its arguments
    pre2,     \* GateSpec: the statevector before the operator before the last
    last2,    \* GateSpec: the operator before the last
    nOps,     \* GateSpec: number of operators applied so far
    pr,       \* GateSpec: whether probsFromState was called, and what it returned
    circ,     \* Spec: the circuit handed to simulateCircuit
    pc,       \* Spec: "idle" before the call, "done" after it returned
    out,      \* Spec: the value simulateCircuit returned, {probs}
    simSt,    \* Spec: the statevector of the call when its loops ended
    applied,  \* Spec: ids of the gates the call dispatched, in order
    probs,    \* SampleSpec: the array handed to sampleCounts
    shots,    \* SampleSpec: the shot count handed to sampleCounts
    trials,   \* SampleSpec: the loop counter s of sampleCounts
    counts,   \* SampleSpec: the histogram under construction
    before,   \* SampleSpec: the histogram as it was before the last trial
    draw,     \* SampleSpec: the value Math.random() returned in the last trial
    ret,      \* SampleSpec: whether sampleCounts returned, and what
    circuit,  \* EditorSpec: the circuit state of App
    selected, \* EditorSpec: the selected gate {t, id}, or none
    drag,     \* EditorSpec: the gate being dragged, or none
    view,     \* EditorSpec: what the last recomputation of the memo gave
    nEdits,   \* EditorSpec: number of editor operations so far
    appShots, \* EditorSpec: the shots state of App
    pending,  \* EditorSpec: pendingRef.current, the gate a press is held on
    timer,    \* EditorSpec: whether the hold timer is armed
    pressed,  \* EditorSpec: whether the button that went down on a gate is
              \*             still down; no code reads it
    lastEdit, \* EditorSpec: the last operation on the circuit and its inputs
    prevCircuit, \* EditorSpec: the circuit value the last updater was handed,
              \*             as that object is after the updater ran
    callCirc, \* CallSpec: the circuit value both calls were handed
    heap,     \* CallSpec: the arrays allocated so far, by address
    calls     \* CallSpec: per call, where it stands and what it holds

gateVars == <<nQ, origin, st, pre, last, pre2, last2, nOps, pr>>
simVars == <<circ, pc, out, simSt, applied>>
sampleVars == <<probs, shots, trials, counts, before, draw, ret>>
vars == <<nQ, origin, st, pre, last, pre2, last2, nOps, pr,
          circ, pc, out, simSt, applied,
          probs, shots, trials, counts, before, draw, ret,
          circuit, selected, drag, view, nEdits,
          appShots, pending, timer, pressed, lastEdit, prevCircuit,
          callCirc, heap, calls>>
editorVars == <<circuit, selected, drag, view, nEdits,
                appShots, pending, timer, pressed, lastEdit, prevCircuit>>
callVars == <<callCirc, heap, calls>>

notGateVars == <<simVars, sampleVars, editorVars, callVars>>
notSimVars == <<gateVars, sampleVars, editorVars, callVars>>
notSampleVars == <<gateVars, simVars, editorVars, callVars>>
notEditorVars == <<gateVars, simVars, sampleVars, callVars>>
notCallVars == <<gateVars, simVars, sampleVars, editorVars>>

Qubits(n) == 0 .. n - 1

----------------------------------------------------------------------------
(* GateSpec: the gate operators applied to bounded inputs *)

\* a statevector with pairwise distinct amplitudes (not normalised)
rampState(n) == [i \in 0 .. Shl1(n) - 1 |-> c(Num(i + 1), Num(2 * i + 1))]

Origins(n) ==
    IF n >= 1 /\ n <= MaxQubits THEN {"zeroState", "ramp"} ELSE {"zeroState"}

\* 2x2 matrices handed to apply1Q: Pauli-Y and a matrix with four distinct entries
Matrices ==
    { [m00 |-> c(Num(0), Num(0)), m01 |-> c(Num(0), Num(-1)),
       m10 |-> c(Num(0), Num(1)), m11 |-> c(Num(0), Num(0))],
      [m00 |-> c(Num(1), Num(0)), m01 |-> c(Num(0), Num(1)),
       m10 |-> c(Num(2), Num(0)), m11 |-> c(Num(1), Num(1))] }

SimIdle ==
    /\ circ = "none"
    /\ pc = "off"
    /\ out = "none"
    /\ simSt = "none"
    /\ applied = <<>>

GateIdle ==
    /\ nQ = 0
    /\ origin = "none"
    /\ st = <<>>
    /\ pre = <<>>
    /\ last = [op |-> "init"]
    /\ pre2 = <<>>
    /\ last2 = [op |-> "init"]
    /\ nOps = 0
    /\ pr = [called |-> FALSE]

SampleIdle ==
    /\ probs = <<>>
    /\ shots = 0
    /\ trials = 0
    /\ counts = <<>>
    /\ before = <<>>
    /\ draw = [made |-> FALSE]
    /\ ret = [returned |-> FALSE]

EditorIdle ==
    /\ circuit = "none"
    /\ selected = [set |-> FALSE]
    /\ drag = [on |-> FALSE]
    /\ view = "none"
    /\ nEdits = 0
    /\ appShots = 0
    /\ pending = [set |-> FALSE]
    /\ timer = FALSE
    /\ pressed = FALSE
    /\ lastEdit = [op |-> "none"]
    /\ prevCircuit = "none"

CallIdle ==
    /\ callCirc = "none"
    /\ heap = <<>>
    /\ calls = <<>>

GateInit ==
    /\ nQ \in (0 - 1) .. QubitCap
    /\ origin \in Origins(nQ)
    /\ st = IF origin = "zeroState" THEN zeroState(nQ) ELSE rampState(nQ)
    /\ pre = st
    /\ last = [op |-> "init"]
    /\ pre2 = st
    /\ last2 = [op |-> "init"]
    /\ nOps = 0
    /\ pr = [called |-> FALSE]
    /\ SimIdle
    /\ SampleIdle
    /\ EditorIdle
    /\ CallIdle

\* operator calls whose qubit index is not in 0 .. n-1
OutOps == {"Xout", "Hout", "CXout"}

CanApply ==
    /\ nQ >= 1
    /\ nQ <= MaxQubits
    /\ nOps < MaxOps
    /\ ~pr.called
    /\ last.op \notin OutOps

\* bookkeeping common to the gate actions: the operator op has just produced st'
Applied(op) ==
    /\ pre' = st
    /\ last' = op
    /\ pre2' = pre
    /\ last2' = last
    /\ nOps' = nOps + 1
    /\ UNCHANGED <<nQ, origin, pr>>
    /\ UNCHANGED notGateVars

DoX(t) ==
    /\ CanApply
    /\ st' = applyX(st, t)
    /\ Applied([op |-> "X", t |-> t])

DoH(t) ==
    /\ CanApply
    /\ st' = applyH(st, t)
    /\ Applied([op |-> "H", t |-> t])

DoCX(control, target) ==
    /\ CanApply
    /\ control # target
    /\ st' = applyCX(st, control, target)
    /\ Applied([op |-> "CX", control |-> control, target |-> target])

Do1Q(t, m) ==
    /\ CanApply
    /\ st' = apply1Q(st, t, m.m00, m.m01, m.m10, m.m11)
    /\ Applied([op |-> "1Q", t |-> t, m |-> m])

\* applyCX called with control = target
DoCXSame(q) ==
    /\ CanApply
    /\ st' = applyCX(st, q, q)
    /\ Applied([op |-> "CXsame", q |-> q])

\* the qubit indices just past the range 0 .. n-1
PastRange(n) == n .. n + 1

\* applyX called with a qubit index that is out of range
DoXOut(t) ==
    /\ CanApply
    /\ st' = applyX(st, t)
    /\ Applied([op |-> "Xout", t |-> t])

\* applyH called with a qubit index that is out of range
DoHOut(t) ==
    /\ CanApply
    /\ st' = applyH(st, t)
    /\ Applied([op |-> "Hout", t |-> t])

\* applyCX called with a control or a target that is out of range
DoCXOut(control, target) ==
    /\ CanApply
    /\ control # target
    /\ control \in PastRange(nQ) \/ target \in PastRange(nQ)
    /\ st' = applyCX(st, control, target)
    /\ Applied([op |-> "CXout", control |-> control, target |-> target])

\* the statevector is read out once; it is discarded afterwards
DoProbs ==
    /\ ~pr.called
    /\ ~Threw(st)
    /\ pr' = [called |-> TRUE, probs |-> probsFromState(st)]
    /\ UNCHANGED <<nQ, origin, st, pre, last, pre2, last2, nOps>>
    /\ UNCHANGED notGateVars

GateNext ==
    \/ \E t \in Qubits(nQ) : DoX(t)
    \/ \E t \in Qubits(nQ) : DoH(t)
    \/ \E control \in Qubits(nQ), target \in Qubits(nQ) : DoCX(control, target)
    \/ \E t \in Qubits(nQ), m \in Matrices : Do1Q(t, m)
    \/ \E q \in Qubits(nQ) : DoCXSame(q)
    \/ \E t \in PastRange(nQ) : DoXOut(t)
    \/ \E t \in PastRange(nQ) : DoHOut(t)
    \/ \E control \in 0 .. nQ + 1, target \in 0 .. nQ + 1 : DoCXOut(control, target)
    \/ DoProbs

GateSpec == GateInit /\ [][GateNext]_vars

----------------------------------------------------------------------------
(* Spec: simulateCircuit called on a bounded circuit *)

\* the gate instances a valid n-qubit circuit may hold (ids are given below)
GateKinds(n) ==
    {[type |-> ty, targets |-> <<q>>] : ty \in {"H", "X", "MEASURE"}, q \in Qubits(n)}
    \cup {[type |-> "CX", targets |-> <<q[1], q[2]>>] :
              q \in {p \in Qubits(n) \X Qubits(n) : p[1] # p[2]}}

RECURSIVE SumSeq(_)
SumSeq(s) == IF s = <<>> THEN 0 ELSE Head(s) + SumSeq(Tail(s))

\* the ways to spread g gates over at most MaxDocGates moments (empty ones included)
Shapes(g) ==
    {lens \in UNION {[1 .. m -> 0 .. g] : m \in 0 .. MaxDocGates} : SumSeq(lens) = g}

\* the circuit whose k-th moment holds the next lens[k] gates of gs; a gate's
\* id is its position in gs
MakeCircuit(n, gs, lens) ==
    LET withId == [p \in 1 .. Len(gs) |->
                      [id |-> p, type |-> gs[p].type, targets |-> gs[p].targets]]
        off(k) == SumSeq(SubSeq(lens, 1, k - 1))
    IN  [nQubits |-> n,
         moments |-> [k \in 1 .. Len(lens) |->
                         [t |-> k - 1,
                          gates |-> SubSeq(withId, off(k) + 1, off(k) + lens[k])]]]

\* the circuits handed to the driver: every valid circuit within the bounds
IsDocCircuit(x) ==
    \E n \in 1 .. MaxDocQubits, g \in 0 .. MaxDocGates :
        \E gs \in [1 .. g -> GateKinds(n)], lens \in Shapes(g) :
            x = MakeCircuit(n, gs, lens)

Init ==
    /\ IsDocCircuit(circ)
    /\ pc = "idle"
    /\ out = "none"
    /\ simSt = "none"
    /\ applied = <<>>
    /\ GateIdle
    /\ SampleIdle
    /\ EditorIdle
    /\ CallIdle

\* one call of simulateCircuit(circ), run to completion
Simulate ==
    /\ pc = "idle"
    /\ out' = simulateCircuit(circ)
    /\ simSt' = simulateRun(circ).st
    /\ applied' = simulateRun(circ).applied
    /\ pc' = "done"
    /\ UNCHANGED circ
    /\ UNCHANGED notSimVars

Next == Simulate

Spec == Init /\ [][Next]_vars

----------------------------------------------------------------------------
(* SampleSpec: sampleCounts called on bounded arrays, one trial per step *)

DZero == Dbl(0, 0)
DQuarter == Dbl(Limb \div 4, 0)
DHalf == Dbl(Limb \div 2, 0)
DOne == Dbl(Limb, 0)
\* 2^-54
DTiny == Dbl(0, 1)
\* 1 - u * 2^-54
OneMinus(u) == Dbl(Limb - 1, Limb - u)

\* the sum of an array of doubles as a real number (no rounding)
RECURSIVE ExactSum(_, _)
ExactSum(ps, N) == IF N = 0 THEN DZero ELSE DAdd_exact(ExactSum(ps, N - 1), ps[N - 1])

\* arrays of quarters that sum to at most 1
Dyadic(n) ==
    IF n > MaxDyadicQubits THEN {}
    ELSE {ps \in [0 .. Pow2(n) - 1 -> {DZero, DQuarter, DHalf, DOne}] :
              DLe(ExactSum(ps, Pow2(n)), DOne)}

\* arrays with one entry just below 1 followed by m entries of 2^-54
ThinTail(n) ==
    {[i \in 0 .. Pow2(n) - 1 |-> IF i = 0 THEN head ELSE IF i <= m THEN DTiny ELSE DZero] :
         head \in {OneMinus(4), OneMinus(8)}, m \in 0 .. Pow2(n) - 1}

SampleInputs(n) == Dyadic(n) \cup ThinTail(n)

\* values Math.random() may return: multiples of 2^-53 in [0, 1)
RandomValues == {DZero, DQuarter, DHalf, OneMinus(4), OneMinus(2)}

SampleInit ==
    /\ \E n \in 1 .. MaxSampleQubits : probs \in SampleInputs(n)
    /\ shots \in (0 - 1) .. MaxShots
    /\ trials = 0
    /\ counts = <<>>
    /\ before = <<>>
    /\ draw = [made |-> FALSE]
    /\ ret = [returned |-> FALSE]
    /\ GateIdle
    /\ SimIdle
    /\ EditorIdle
    /\ CallIdle

\* one pass of the loop over s
Trial(r) ==
    /\ ~ret.returned
    /\ trials < shots
    /\ before' = counts
    /\ counts' = sampleTrial(counts, probs, r)
    /\ draw' = [made |-> TRUE, r |-> r]
    /\ trials' = trials + 1
    /\ UNCHANGED <<probs, shots, ret>>
    /\ UNCHANGED notSampleVars

\* the loop over s ends and counts is returned
Return ==
    /\ ~ret.returned
    /\ ~(trials < shots)
    /\ ret' = [returned |-> TRUE, counts |-> counts]
    /\ UNCHANGED <<probs, shots, trials, counts, before, draw>>
    /\ UNCHANGED notSampleVars

SampleNext ==
    \/ \E r \in RandomValues : Trial(r)
    \/ Return

SampleSpec == SampleInit /\ [][SampleNext]_vars

----------------------------------------------------------------------------
(* EditorSpec: the operations of the editor on the circuit state of App.
   Arrays of moments and gates are sequences: index k of the source is
   position k + 1 here. *)

mathMax(a, b) == IF a >= b THEN a ELSE b
mathMin(a, b) == IF a <= b THEN a ELSE b
clamp(v, lo, hi) == mathMax(lo, mathMin(hi, v))

emptyCircuit(nQubits) == [nQubits |-> nQubits, moments |-> <<>>]

\* while (ms.length <= t) ms.push({t: ms.length, gates: []})
RECURSIVE pushMoments(_, _)
pushMoments(ms, t) ==
    IF Len(ms) <= t THEN pushMoments(Append(ms, [t |-> Len(ms), gates |-> <<>>]), t)
    ELSE ms

\* ms[t].gates.push(gate)
pushGate(ms, t, gate) ==
    [ms EXCEPT ![t + 1] = [t |-> ms[t + 1].t, gates |-> Append(ms[t + 1].gates, gate)]]

\* variant of addMoment: the new moment is numbered from one
addMoment_fromOne(cc) ==
    [nQubits |-> cc.nQubits,
     moments |-> Append(cc.moments, [t |-> Len(cc.moments) + 1, gates |-> <<>>])]

addMoment(cc) ==
    [nQubits |-> cc.nQubits,
     moments |-> Append(cc.moments, [t |-> Len(cc.moments), gates |-> <<>>])]

\* ensureMoment(t) followed by the updater of addGate; id is what uid() gave
addGate(cc, type, q0, t, q1, id) ==
    LET gate == [id |-> id, type |-> type,
                 targets |-> IF type = "CX" THEN <<q0, q1>> ELSE <<q0>>]
    IN  [nQubits |-> cc.nQubits,
         moments |-> pushGate(pushMoments(cc.moments, t), t, gate)]

removeLast(cc) ==
    LET ms == cc.moments
        k == Len(ms)
    IN  IF k = 0 THEN cc
        ELSE IF Len(ms[k].gates) > 0
        THEN [nQubits |-> cc.nQubits,
              moments |-> [ms EXCEPT ![k] =
                  [t |-> ms[k].t, gates |-> SubSeq(ms[k].gates, 1, Len(ms[k].gates) - 1)]]]
        ELSE [nQubits |-> cc.nQubits, moments |-> SubSeq(ms, 1, k - 1)]

\* the updater of deleteSelectedGate
deleteGate(cc, sel) ==
    [nQubits |-> cc.nQubits,
     moments |-> [k \in 1 .. Len(cc.moments) |->
         IF cc.moments[k].t = sel.t
         THEN [t |-> cc.moments[k].t,
               gates |-> SelectSeq(cc.moments[k].gates, LAMBDA g : g.id # sel.id)]
         ELSE cc.moments[k]]]

\* gates.splice(gIdx, 1) at the first gate with this id, if there is one
spliceGate(gates, id) ==
    IF \E j \in 1 .. Len(gates) : gates[j].id = id
    THEN LET gIdx == CHOOSE j \in 1 .. Len(gates) :
                         gates[j].id = id /\ \A i \in 1 .. j - 1 : gates[i].id # id
         IN  SubSeq(gates, 1, gIdx - 1) \o SubSeq(gates, gIdx + 1, Len(gates))
    ELSE gates

\* variant of droppedGate: the clamped target is pushed with the control as
\* dropped
droppedGate_clamped(d, qNew, nQubits) ==
    IF d.type = "CX"
    THEN LET diff == d.targets[2] - d.targets[1]
             qTgt == clamp(qNew + diff, 0, nQubits - 1)
         IN  [id |-> d.id, type |-> "CX", targets |-> <<qNew, qTgt>>]
    ELSE [id |-> d.id, type |-> d.type, targets |-> <<qNew>>]

\* the gate dropAtLocal pushes for the dragged gate d at row qNew
droppedGate(d, qNew, nQubits) ==
    IF d.type = "CX"
    THEN LET diff == d.targets[2] - d.targets[1]
             qCtrl == qNew
             qTgt == clamp(qCtrl + diff, 0, nQubits - 1)
         IN  IF qTgt # qCtrl + diff
             THEN LET qCtrlAdj == clamp(qTgt - diff, 0, nQubits - 1)
                  IN  [id |-> d.id, type |-> "CX", targets |-> <<qCtrlAdj, qCtrlAdj + diff>>]
             ELSE [id |-> d.id, type |-> "CX", targets |-> <<qCtrl, qTgt>>]
    ELSE [id |-> d.id, type |-> d.type, targets |-> <<qNew>>]

\* the updater of dropAtLocal; from = ms[drag.t] is undefined when the moment
\* is gone, and from.gates then throws
dropUpdate(cc, d, tNew, qNew) ==
    IF d.t >= Len(cc.moments) THEN [threw |-> "TypeError"]
    ELSE LET ms == [cc.moments EXCEPT ![d.t + 1] =
                       [t |-> cc.moments[d.t + 1].t,
                        gates |-> spliceGate(cc.moments[d.t + 1].gates, d.id)]]
         IN  [nQubits |-> cc.nQubits,
              moments |-> pushGate(pushMoments(ms, tNew), tNew,
                                   droppedGate(d, qNew, cc.nQubits))]

\* variant of setQubits: the count is taken as typed
setQubits_asTyped(n) == emptyCircuit(n)

\* the circuit setQubits(n) installs
setQubits(n) == emptyCircuit(mathMax(1, mathMin(QubitCap, n)))

\* the previous circuit object after the updater of removeLast ran on it:
\* ms is a shallow copy, so last.gates.pop() pops the previous state's array too
removeLastLeaves(cc) ==
    LET ms == cc.moments
        k == Len(ms)
    IN  IF k > 0 /\ Len(ms[k].gates) > 0 THEN removeLast(cc) ELSE cc

\* the memo of App: simulateCircuit(circuit), then sampleCounts(probs, shots)
\* (sampleCounts is stepped in SampleSpec; here the call is recorded with the
\* shot count it is handed)
handed(sim, sh) ==
    IF "threw" \in DOMAIN sim THEN sim ELSE [probs |-> sim.probs, shots |-> sh]

recompute(cc, sh) == handed(simulateCircuit(cc), sh)

Crashed == "threw" \in DOMAIN view

EditorInit ==
    /\ circuit = emptyCircuit(2)
    /\ selected = [set |-> FALSE]
    /\ drag = [on |-> FALSE]
    /\ appShots = DefaultShots
    /\ view = recompute(circuit, appShots)
    /\ nEdits = 0
    /\ pending = [set |-> FALSE]
    /\ timer = FALSE
    /\ pressed = FALSE
    /\ lastEdit = [op |-> "none"]
    /\ prevCircuit = circuit
    /\ GateIdle
    /\ SimIdle
    /\ SampleIdle
    /\ CallIdle

\* the application is mounted
Mounted == ~Crashed

CanEdit ==
    /\ Mounted
    /\ nEdits < MaxEdits

\* circuits whose recomputation is explored with gates on them
Small == circuit.nQubits <= MaxEdQubits

\* the render after a state update: the memo is recomputed when circuit or
\* shots changed
Rendered ==
    /\ view' = IF circuit' = circuit /\ appShots' = appShots THEN view
               ELSE recompute(circuit', appShots')
    /\ UNCHANGED notEditorVars

\* what every counted operation does besides its own assignments
Edited(op) ==
    /\ lastEdit' = op
    /\ nEdits' = nEdits + 1
    /\ Rendered

pointerVars == <<pending, timer, pressed>>

\* counts beyond MaxEdQubits (a statevector of up to 2^12 entries) are typed
\* while the circuit has no moments
Fresh == circuit.moments = <<>>

SetQubits(n) ==
    /\ CanEdit
    /\ n > MaxEdQubits => Fresh
    /\ circuit' = setQubits(n)
    /\ prevCircuit' = circuit
    /\ selected' = [set |-> FALSE]
    /\ UNCHANGED <<drag, appShots>>
    /\ UNCHANGED pointerVars
    /\ Edited([op |-> "setQubits", n |-> n])

\* a change of the Shots field to the integer n
SetShots(n) ==
    /\ CanEdit
    /\ appShots' = n
    /\ UNCHANGED <<circuit, prevCircuit, selected, drag>>
    /\ UNCHANGED pointerVars
    /\ Edited([op |-> "setShots"])

\* uid(): seven base-36 digits of Math.random(), which may be a string drawn
\* before. The code only compares ids for equality, so the strings are
\* numbered: the call returns an id the editor holds (on a gate, in selected,
\* in drag or in pendingRef), or the first number it does not hold
uid ==
    LET held == UNION {{circuit.moments[k].gates[j].id :
                           j \in 1 .. Len(circuit.moments[k].gates)} :
                       k \in 1 .. Len(circuit.moments)}
                    \cup (IF selected.set THEN {selected.id} ELSE {})
                    \cup (IF drag.on THEN {drag.id} ELSE {})
                    \cup (IF pending.set THEN {pending.id} ELSE {})
    IN  held \cup {CHOOSE i \in 1 .. Cardinality(held) + 1 : i \notin held}

\* a palette button: the gate goes to qubit 0 (CX to 0 and 1) of a new moment,
\* with the id that uid() returned
Palette(type, id) ==
    /\ CanEdit
    /\ Small
    /\ circuit' = addGate(circuit, type, 0, Len(circuit.moments), 1, id)
    /\ prevCircuit' = circuit
    /\ UNCHANGED <<selected, drag, appShots>>
    /\ UNCHANGED pointerVars
    /\ Edited([op |-> "addGate", before |-> circuit])

AddMoment ==
    /\ CanEdit
    /\ circuit' = addMoment(circuit)
    /\ prevCircuit' = circuit
    /\ UNCHANGED <<selected, drag, appShots>>
    /\ UNCHANGED pointerVars
    /\ Edited([op |-> "addMoment", before |-> circuit])

RemoveLast ==
    /\ CanEdit
    /\ circuit' = removeLast(circuit)
    /\ prevCircuit' = removeLastLeaves(circuit)
    /\ UNCHANGED <<selected, drag, appShots>>
    /\ UNCHANGED pointerVars
    /\ Edited([op |-> "removeLast", before |-> circuit])

\* the Delete button, or the Delete or Backspace key
DeleteSelectedGate ==
    /\ CanEdit
    /\ selected.set
    /\ circuit' = deleteGate(circuit, selected)
    /\ prevCircuit' = circuit
    /\ selected' = [set |-> FALSE]
    /\ UNCHANGED <<drag, appShots>>
    /\ UNCHANGED pointerVars
    /\ Edited([op |-> "deleteSelectedGate", before |-> circuit])

\* what a step of the pointer that is no edit leaves alone
PointerOnly ==
    /\ UNCHANGED <<circuit, prevCircuit, appShots, lastEdit>>
    /\ Rendered

\* cancelHold()
CancelHold ==
    /\ timer' = FALSE
    /\ pending' = [set |-> FALSE]

\* mouse down or touch start on the j-th gate of moment k: onSelect, startHold
Press(k, j) ==
    /\ CanEdit
    /\ ~pressed
    /\ LET m == circuit.moments[k]
           g == m.gates[j]
       IN  /\ selected' = [set |-> TRUE, t |-> m.t, id |-> g.id]
           /\ pending' = [set |-> TRUE, id |-> g.id, t |-> m.t,
                          type |-> g.type, targets |-> g.targets]
    /\ timer' = TRUE
    /\ pressed' = TRUE
    /\ nEdits' = nEdits + 1
    /\ UNCHANGED drag
    /\ PointerOnly

\* the hold timer fires, HOLD_MS after startHold
HoldFire ==
    /\ Mounted
    /\ timer
    /\ timer' = FALSE
    /\ drag' = IF pending.set
               THEN [on |-> TRUE, id |-> pending.id, t |-> pending.t,
                     type |-> pending.type, targets |-> pending.targets]
               ELSE drag
    /\ UNCHANGED <<selected, pending, pressed, nEdits>>
    /\ PointerOnly

\* mouse up over the canvas while no drag is active: onMouseUpWrapper,
\* whether or not the button went down on a gate
ReleaseOnCanvas ==
    /\ Mounted
    /\ ~drag.on
    /\ IF pending.set THEN CancelHold ELSE UNCHANGED <<timer, pending>>
    /\ pressed' = FALSE
    /\ UNCHANGED <<selected, drag, nEdits>>
    /\ PointerOnly

\* mouse up outside the canvas, or touch end: no handler runs
ReleaseElsewhere ==
    /\ Mounted
    /\ pressed
    /\ pressed' = FALSE
    /\ UNCHANGED <<selected, drag, pending, timer, nEdits>>
    /\ PointerOnly

\* the state dropAtLocal leaves: res is what its updater returned or threw
Dropped(res, tNew, qNew, right) ==
    /\ circuit' = IF "threw" \in DOMAIN res THEN circuit ELSE res
    /\ view' = IF "threw" \in DOMAIN res THEN res ELSE recompute(circuit', appShots)
    /\ selected' = [set |-> TRUE, t |-> tNew, id |-> drag.id]
    /\ lastEdit' = [op |-> "drop", before |-> circuit, d |-> drag,
                    right |-> right, tNew |-> tNew, qNew |-> qNew]
    /\ prevCircuit' = circuit
    /\ drag' = [on |-> FALSE]
    /\ CancelHold
    /\ pressed' = FALSE
    /\ UNCHANGED <<appShots, nEdits>>
    /\ UNCHANGED notEditorVars

\* the column count the canvas draws: Math.max(1, circuit.moments.length || 1)
colsOf(cc) == mathMax(1, IF Len(cc.moments) = 0 THEN 1 ELSE Len(cc.moments))

\* dropAtLocal from the clamped column on
dropAt(tClamped, cols, qNew, right) ==
    IF tClamped >= cols
    THEN Dropped(dropUpdate(addMoment(circuit), drag, cols, qNew), cols, qNew, right)
    ELSE Dropped(dropUpdate(circuit, drag, tClamped, qNew), tClamped, qNew, right)

\* mouse up over the canvas while a drag is active: dropAtLocal at the cell
\* the pointer rounds to, column col and row row; the handler asks for
\* nothing but the drag
Drop(col, row) ==
    /\ Mounted
    /\ Small
    /\ drag.on
    /\ dropAt(clamp(col, 0, mathMax(0, colsOf(circuit) - 1)), colsOf(circuit),
              clamp(row, 0, circuit.nQubits - 1), col >= colsOf(circuit))

\* a click on the empty canvas: cancelHold, onDeselect
Deselect ==
    /\ Mounted
    /\ selected' = [set |-> FALSE]
    /\ CancelHold
    /\ UNCHANGED <<drag, pressed, nEdits>>
    /\ PointerOnly

\* values typed into the Qubits field
QubitInputs == ((0 - 1) .. MaxEdQubits) \cup {QubitCap, QubitCap + 1}

\* values typed into the Shots field
ShotInputs == {0 - 1, 0, 1, ShotCap, ShotCap + 1}

EditorNext ==
    \/ \E n \in QubitInputs : SetQubits(n)
    \/ \E n \in ShotInputs : SetShots(n)
    \/ \E type \in GateTypes, id \in uid : Palette(type, id)
    \/ AddMoment
    \/ RemoveLast
    \/ DeleteSelectedGate
    \/ \E k \in 1 .. Len(circuit.moments) :
           \E j \in 1 .. Len(circuit.moments[k].gates) : Press(k, j)
    \/ HoldFire
    \/ ReleaseOnCanvas
    \/ ReleaseElsewhere
    \/ \E col \in (0 - 1) .. Len(circuit.moments), row \in (0 - 1) .. circuit.nQubits :
           Drop(col, row)
    \/ Deselect

EditorSpec == EditorInit /\ [][EditorNext]_vars

----------------------------------------------------------------------------
(* CallSpec: two calls of simulateCircuit on one circuit value, stepped in
   any interleaving; each step is one statement of the driver *)

\* variant of newArray: every call gets the same array
newArray_shared(hp) == 1

\* the address of the array Array.from creates: one no earlier array has
newArray(hp) == Len(hp) + 1

\* the heap after an array with these elements was stored at address a
stored(hp, a, elems) ==
    IF a <= Len(hp) THEN [hp EXCEPT ![a] = elems] ELSE Append(hp, elems)

Callers == {1, 2}

CallInit ==
    /\ \E n \in 1 .. MaxCallQubits, g \in 0 .. MaxCallGates :
           \E gs \in [1 .. g -> GateKinds(n)] :
               callCirc \in {MakeCircuit(n, gs, <<g>>)} \cup
                            (IF g = 0 THEN {MakeCircuit(n, gs, <<>>)} ELSE {})
    /\ heap = <<>>
    /\ calls = [k \in Callers |-> [at |-> "idle"]]
    /\ GateIdle
    /\ SimIdle
    /\ SampleIdle
    /\ EditorIdle

\* const st = zeroState(circ.nQubits)
Enter(k) ==
    /\ calls[k].at = "idle"
    /\ LET a == newArray(heap)
       IN  /\ heap' = stored(heap, a, zeroState(callCirc.nQubits))
           /\ calls' = [calls EXCEPT ![k] = [at |-> "loop", st |-> a, m |-> 0, g |-> 0]]
    /\ UNCHANGED callCirc
    /\ UNCHANGED notCallVars

\* one pass of the loop over the gates of moment m
Gate(k) ==
    /\ calls[k].at = "loop"
    /\ calls[k].m < Len(callCirc.moments)
    /\ calls[k].g < Len(callCirc.moments[calls[k].m + 1].gates)
    /\ LET gate == callCirc.moments[calls[k].m + 1].gates[calls[k].g + 1]
       IN  heap' = [heap EXCEPT ![calls[k].st] = applyGate(heap[calls[k].st], gate)]
    /\ calls' = [calls EXCEPT ![k].g = calls[k].g + 1]
    /\ UNCHANGED callCirc
    /\ UNCHANGED notCallVars

\* the gates of moment m are done: the loop over the moments goes on
NextMoment(k) ==
    /\ calls[k].at = "loop"
    /\ calls[k].m < Len(callCirc.moments)
    /\ calls[k].g = Len(callCirc.moments[calls[k].m + 1].gates)
    /\ calls' = [calls EXCEPT ![k].m = calls[k].m + 1, ![k].g = 0]
    /\ UNCHANGED <<callCirc, heap>>
    /\ UNCHANGED notCallVars

\* return { probs: probsFromState(st) }
Leave(k) ==
    /\ calls[k].at = "loop"
    /\ calls[k].m = Len(callCirc.moments)
    /\ calls' = [calls EXCEPT ![k] =
                    [at |-> "done", st |-> calls[k].st,
                     out |-> [probs |-> probsFromState(heap[calls[k].st])]]]
    /\ UNCHANGED <<callCirc, heap>>
    /\ UNCHANGED notCallVars

CallNext ==
    \E k \in Callers : Enter(k) \/ Gate(k) \/ NextMoment(k) \/ Leave(k)

CallSpec == CallInit /\ [][CallNext]_vars

----------------------------------------------------------------------------
(* Vocabulary of the properties, written without the engine's operators *)

\* bit k of index i
Bit(i, k) == (i \div (2 ^ k)) % 2

\* the distribution that is 1 at index k and 0 elsewhere, over n qubits
Delta(n, k) == [i \in 0 .. (2 ^ n) - 1 |-> IF i = k THEN Num(1) ELSE Num(0)]

\* the basis state |k> of n qubits
Basis(n, k) ==
    [i \in 0 .. (2 ^ n) - 1 |-> IF i = k THEN c(Num(1), Num(0)) ELSE c(Num(0), Num(0))]

\* the doubles 1/2 and 1/4
Half == Round(0, <<1>>, 0 - 1)
Quarter == Round(0, <<1>>, 0 - 2)

\* the tolerance 2^-30, which is below 1e-9
Tol == Round(0, <<1>>, 0 - 30)

\* x >= 0
NNonNeg(x) == x.s = 0 \/ x.m = <<>>

\* x <= y, as real numbers
NLe(x, y) == ExactAdd(y, NNeg(x)).s = 0

\* |x|
NAbs(x) == [s |-> 0, m |-> x.m, e |-> x.e]

\* |x - y| <= Tol, as real numbers
Near(x, y) == NLe(NAbs(ExactAdd(x, NNeg(y))), Tol)

\* the amplitudes a and b are within Tol of each other in both components
NearC(a, b) == Near(a.re, b.re) /\ Near(a.im, b.im)

\* p[0] + ... + p[hi] as a real number, without rounding
RECURSIVE SumUpTo(_, _)
SumUpTo(p, hi) == IF hi < 0 THEN Num(0) ELSE ExactAdd(SumUpTo(p, hi - 1), p[hi])

\* the gates of a circuit in document order
RECURSIVE DocOrder(_)
DocOrder(moments) ==
    IF moments = <<>> THEN <<>> ELSE Head(moments).gates \o DocOrder(Tail(moments))

\* type and targets of each gate, in document order
Shape(cc) ==
    LET gs == DocOrder(cc.moments)
    IN  [p \in 1 .. Len(gs) |-> <<gs[p].type, gs[p].targets>>]

\* left fold of the gates gs over the statevector v
RECURSIVE Fold(_, _)
Fold(v, gs) == IF gs = <<>> THEN v ELSE Fold(applyGate(v, Head(gs)), Tail(gs))

\* the circuit without the gi-th gate of its mi-th moment
RemoveGate(cc, mi, gi) ==
    LET gs == cc.moments[mi].gates
        rest == SubSeq(gs, 1, gi - 1) \o SubSeq(gs, gi + 1, Len(gs))
    IN  [cc EXCEPT !.moments[mi].gates = rest]

MeasurePositions(cc) ==
    {pos \in (1 .. Len(cc.moments)) \X (1 .. MaxDocGates + 1) :
        /\ pos[2] <= Len(cc.moments[pos[1]].gates)
        /\ cc.moments[pos[1]].gates[pos[2]].type = "MEASURE"}

\* the running sum after entry i, added up in the order and with the rounding
\* of the doubles
RECURSIVE RunningSum(_, _)
RunningSum(ps, i) ==
    IF i = 0 THEN DAdd(DZero, ps[0]) ELSE DAdd(RunningSum(ps, i - 1), ps[i])

\* non-negative entries whose sum, as real numbers, is exactly 1
IsDistribution(ps) ==
    /\ \A i \in DOMAIN ps : DLe(DZero, ps[i])
    /\ ExactSum(ps, length(ps)) = DOne

\* the count a histogram holds for a key (0 for a key it does not hold)
CountOf(cs, k) == IF k \in DOMAIN cs THEN cs[k] ELSE 0

RECURSIVE SumOver(_, _)
SumOver(cs, K) ==
    IF K = {} THEN 0
    ELSE LET k == CHOOSE x \in K : TRUE IN cs[k] + SumOver(cs, K \ {k})

\* the sum of all values of a histogram
Total(cs) == SumOver(cs, DOMAIN cs)

\* n characters, qubit n-1 first and qubit 0 last
RECURSIVE BitString(_, _)
BitString(i, n) ==
    IF n = 0 THEN ""
    ELSE (IF Bit(i, n - 1) = 1 THEN "1" ELSE "0") \o BitString(i, n - 1)

\* the n with 2^n entries in ps
QubitsOf(ps) == CHOOSE n \in 0 .. length(ps) : 2 ^ n = length(ps)

\* the last trial added one to the count of key and changed nothing else
OnlyIncremented(key) ==
    \A k \in DOMAIN counts \cup DOMAIN before \cup {key} :
        CountOf(counts, k) = CountOf(before, k) + (IF k = key THEN 1 ELSE 0)

\* the running sum reaches r at index i and at no index before i
FirstAtLeast(ps, r, i) ==
    /\ DLe(r, RunningSum(ps, i))
    /\ \A j \in 0 .. i - 1 : ~DLe(r, RunningSum(ps, j))

----------------------------------------------------------------------------
(* Properties *)

\* C1: for a circuit of H, X, CX and MEASURE gates with indices in range and
\* control # target, simulateCircuit returns 2^n probabilities, each
\* non-negative, whose sum is within the tolerance of 1 (the sum of the
\* doubles need not be exactly 1).
C1_ProbsAreDistribution ==
    pc = "done" =>
        /\ DOMAIN out.probs = 0 .. (2 ^ circ.nQubits) - 1
        /\ \A i \in DOMAIN out.probs : NNonNeg(out.probs[i])
        /\ Near(SumUpTo(out.probs, (2 ^ circ.nQubits) - 1), Num(1))

C1_Witness ==
    /\ pc = "done"
    /\ circ.nQubits = 2
    /\ Len(applied) = 2
    /\ \A i \in DOMAIN out.probs : Near(out.probs[i], Quarter)
    /\ ~NLe(SumUpTo(out.probs, 3), Num(1))

\* C2: for every n in 1..12, zeroState(n) has length 2^n, amplitude (1,0) at
\* index 0 and (0,0) elsewhere, and probsFromState of it is 1 at index 0 and 0
\* elsewhere.
C2_ZeroState ==
    (nQ \in 1 .. 12 /\ origin = "zeroState" /\ nOps = 0) =>
        /\ DOMAIN st = 0 .. (2 ^ nQ) - 1
        /\ st[0] = c(Num(1), Num(0))
        /\ \A i \in 1 .. (2 ^ nQ) - 1 : st[i] = c(Num(0), Num(0))
        /\ pr.called => pr.probs = Delta(nQ, 0)

C2_Witness ==
    /\ origin = "zeroState"
    /\ nOps = 0
    /\ nQ = 12
    /\ pr.called
    /\ pr.probs[0] = Num(1)

\* C3: the 2-qubit circuit H on qubit 0, then CX(control 0, target 1), gives
\* the distribution 1/2, 0, 0, 1/2 over the indices 0, 1, 2, 3, each entry
\* within the tolerance (the doubles at 0 and 3 are the next above 1/2).
IsBell(cc) ==
    /\ cc.nQubits = 2
    /\ Shape(cc) = << <<"H", <<0>> >>, <<"CX", <<0, 1>> >> >>

C3_Bell ==
    (pc = "done" /\ IsBell(circ)) =>
        /\ DOMAIN out.probs = 0 .. 3
        /\ Near(out.probs[0], Half)
        /\ Near(out.probs[1], Num(0))
        /\ Near(out.probs[2], Num(0))
        /\ Near(out.probs[3], Half)

C3_Witness ==
    /\ pc = "done"
    /\ IsBell(circ)
    /\ Near(out.probs[3], Half)
    /\ out.probs[3] = NMul(SQRT1_2, SQRT1_2)
    /\ out.probs[3] # Half

\* C4: qubit k is bit k of the index: Pauli-X on qubit k of the n-qubit zero
\* state leaves amplitude 1 at index 2^k, hence probability 1 there and 0
\* elsewhere (for n = 1: index 0 has 0, index 1 has 1).
C4_XSetsBitK ==
    (origin = "zeroState" /\ nOps = 1 /\ last.op = "X") =>
        /\ st = Basis(nQ, 2 ^ last.t)
        /\ pr.called => pr.probs = Delta(nQ, 2 ^ last.t)

C4_Witness ==
    /\ origin = "zeroState"
    /\ nOps = 1
    /\ last = [op |-> "X", t |-> 1]
    /\ nQ = 3
    /\ pr.called
    /\ pr.probs[2] = Num(1)

\* C5: apply1Q replaces, for every i with bit t clear and j = i + 2^t, the
\* pair (st[i], st[j]) by (m00*a_i + m01*a_j, m10*a_i + m11*a_j), a_i and a_j
\* being the amplitudes before the call; every pair is updated once.
C5_Apply1QPairs ==
    last.op = "1Q" =>
        /\ DOMAIN st = DOMAIN pre
        /\ \A i \in DOMAIN pre :
              Bit(i, last.t) = 0 =>
                  LET j == i + 2 ^ last.t
                  IN  /\ st[i] = add(mul(last.m.m00, pre[i]), mul(last.m.m01, pre[j]))
                      /\ st[j] = add(mul(last.m.m10, pre[i]), mul(last.m.m11, pre[j]))

C5_Witness ==
    /\ last.op = "1Q"
    /\ last.t = 1
    /\ last.m.m10 = c(Num(2), Num(0))
    /\ nQ = 3
    /\ origin = "ramp"
    /\ nOps = 2
    /\ st # pre

\* C6: applyCX with distinct in-range control and target swaps st[i] and
\* st[i + 2^target] for every i with the control bit set and the target bit
\* clear, and leaves every amplitude whose index has the control bit clear as
\* it was; CX(0, 1) on a zero state leaves the distribution at 1 on index 0.
C6_ControlledSwap ==
    last.op = "CX" =>
        /\ DOMAIN st = DOMAIN pre
        /\ \A i \in DOMAIN pre :
              /\ (Bit(i, last.control) = 1 /\ Bit(i, last.target) = 0) =>
                     /\ st[i] = pre[i + 2 ^ last.target]
                     /\ st[i + 2 ^ last.target] = pre[i]
              /\ Bit(i, last.control) = 0 => st[i] = pre[i]
        /\ (/\ origin = "zeroState"
            /\ nOps = 1
            /\ last.control = 0
            /\ last.target = 1
            /\ pr.called) => pr.probs = Delta(nQ, 0)

C6_Witness ==
    /\ last = [op |-> "CX", control |-> 2, target |-> 0]
    /\ origin = "ramp"
    /\ nOps = 1
    /\ st[4] = pre[5]
    /\ st[5] = pre[4]
    /\ st[1] = pre[1]
    /\ pre[4] # pre[5]

\* C7: Pauli-X is an involution: applyX applied twice to the same qubit of
\* any statevector gives back exactly the statevector it started from.
C7_XInvolution ==
    /\ last.op = "X" => applyX(st, last.t) = pre
    /\ (last.op = "X" /\ last2 = last) => st = pre2

C7_Witness ==
    /\ last = [op |-> "X", t |-> 1]
    /\ last2 = last
    /\ nQ = 3
    /\ origin = "ramp"
    /\ pre # pre2
    /\ st = pre2

\* C8: Hadamard applied twice in succession to the same qubit of a zero state
\* gives back the zero state, every amplitude within the tolerance of the
\* one before the two applications.
C8_HTwice ==
    (origin = "zeroState" /\ nOps = 2 /\ last.op = "H" /\ last2 = last) =>
        /\ pre2 = Basis(nQ, 0)
        /\ DOMAIN st = DOMAIN pre2
        /\ \A i \in DOMAIN pre2 : NearC(st[i], pre2[i])

C8_Witness ==
    /\ origin = "zeroState"
    /\ nOps = 2
    /\ last = [op |-> "H", t |-> 2]
    /\ last2 = last
    /\ pre[4] = c(SQRT1_2, Num(0))
    /\ NearC(st[0], pre2[0])
    /\ st[0] = c(NAdd(Num(1), Round(0, <<1>>, 0 - 52)), Num(0))
    /\ st[4] = pre2[4]

\* C9: simulateCircuit applies the gates in document order: moments in array
\* order and, within a moment, gates in array order; two gates on the same
\* qubit in one moment are both applied, in that order, and a result is
\* returned.
C9_DocumentOrder ==
    pc = "done" =>
        /\ applied = [p \in 1 .. Len(DocOrder(circ.moments)) |->
                         DocOrder(circ.moments)[p].id]
        /\ simSt = Fold(Basis(circ.nQubits, 0), DocOrder(circ.moments))
        /\ DOMAIN out.probs = 0 .. (2 ^ circ.nQubits) - 1

C9_Witness ==
    /\ pc = "done"
    /\ circ.nQubits = 1
    /\ Len(circ.moments) = 1
    /\ Shape(circ) = << <<"X", <<0>> >>, <<"H", <<0>> >> >>
    /\ applied = <<1, 2>>
    /\ simSt = (0 :> c(SQRT1_2, Num(0)) @@ 1 :> c(NNeg(SQRT1_2), Num(0)))

\* C10: MEASURE markers never change the statevector: removing a MEASURE
\* gate from any position of a circuit (equivalently, inserting one) leaves
\* the statevector and the distribution simulateCircuit returns unchanged.
C10_MeasureIsNoOp ==
    pc = "done" =>
        \A pos \in MeasurePositions(circ) :
            /\ simulateCircuit(RemoveGate(circ, pos[1], pos[2])).probs = out.probs
            /\ simulateRun(RemoveGate(circ, pos[1], pos[2])).st = simSt

C10_Witness ==
    /\ pc = "done"
    /\ circ.nQubits = 2
    /\ Shape(circ) = << <<"H", <<1>> >>, <<"MEASURE", <<1>> >> >>
    /\ MeasurePositions(circ) # {}
    /\ Near(out.probs[0], Half)
    /\ out.probs[1] = Num(0)
    /\ out.probs[2] = out.probs[0]
    /\ out.probs[3] = Num(0)

\* C18: a gate whose qubit index lies outside 0 .. n-1 is rejected with an
\* error instead of being applied: the call ends in an error, the statevector
\* is not touched outside 0 .. 2^n - 1 and keeps its length 2^n.
C18_OutOfRangeRejected ==
    last.op \in OutOps => Threw(st)

\* C19: applyCX with control = target leaves every amplitude unchanged.
C19_DegenerateCXNoOp ==
    last.op = "CXsame" => st = pre

C19_Witness ==
    /\ last = [op |-> "CXsame", q |-> 1]
    /\ last2.op = "H"
    /\ origin = "ramp"
    /\ nQ = 3
    /\ st = pre
    /\ pre # pre2

\* C12: for every valid distribution and every positive shot count the values
\* of the histogram sampleCounts returns sum to exactly the shot count.
C12_TotalIsShots ==
    (ret.returned /\ shots >= 1 /\ IsDistribution(probs)) =>
        Total(ret.counts) = shots

\* C13: when the running sum stays below the drawn value at every index, the
\* trial is counted for the last index.
C13_CatchAllLastIndex ==
    (draw.made /\ \A i \in DOMAIN probs : ~DLe(draw.r, RunningSum(probs, i))) =>
        OnlyIncremented(BitString(length(probs) - 1, QubitsOf(probs)))

\* C14: each trial adds one to the count of exactly one basis state, the
\* smallest index whose running sum is at least the drawn value, and changes
\* no other entry.
C14_InverseCDF ==
    draw.made =>
        \E i \in DOMAIN probs :
            /\ FirstAtLeast(probs, draw.r, i)
            /\ OnlyIncremented(BitString(i, QubitsOf(probs)))

\* C15: every key of the histogram of an array of 2^n entries (n >= 1) is the
\* n-character binary rendering of the sampled index, qubit n-1 leftmost and
\* qubit 0 rightmost.
C15_KeysMsbFirst ==
    (draw.made /\ length(probs) >= 2) =>
        /\ \A k \in DOMAIN counts :
               /\ Len(k) = QubitsOf(probs)
               /\ \E i \in DOMAIN probs : k = BitString(i, QubitsOf(probs))
        /\ \A i \in DOMAIN probs :
               FirstAtLeast(probs, draw.r, i) =>
                   OnlyIncremented(BitString(i, QubitsOf(probs)))

C15_Witness ==
    /\ ret.returned
    /\ length(probs) = 4
    /\ probs[1] = DQuarter
    /\ DOMAIN ret.counts = {"01", "10"}

\* C20: a zero or negative qubit count handed to zeroState, and a zero or
\* negative shot count handed to sampleCounts, ends in a validation error
\* and produces no result.
C20_NonPositiveRejected ==
    /\ (origin = "zeroState" /\ nQ <= 0) => Threw(st)
    /\ (ret.returned /\ shots <= 0) => "threw" \in DOMAIN ret

\* C16: every gate of every circuit the editor operations reach from the
\* empty 2-qubit circuit has all its qubit indices in 0 .. nQubits-1.
C16_GatesInRange ==
    "moments" \in DOMAIN circuit =>
        \A k \in 1 .. Len(circuit.moments) :
            \A j \in 1 .. Len(circuit.moments[k].gates) :
                \A q \in 1 .. Len(circuit.moments[k].gates[j].targets) :
                    circuit.moments[k].gates[j].targets[q] \in 0 .. circuit.nQubits - 1

\* C17: for every circuit the editor operations reach, the recomputation
\* returns a distribution without throwing.
C17_RecomputeCompletes ==
    "threw" \notin DOMAIN recompute(circuit, appShots)

\* C11: two calls of simulateCircuit on the same circuit, interleaved in any
\* way, work on statevectors of their own and each return the distribution
\* a call on its own returns.
C11_CallsIndependent ==
    /\ \A k \in DOMAIN calls :
           calls[k].at = "done" => calls[k].out = simulateCircuit(callCirc)
    /\ \A j \in DOMAIN calls, k \in DOMAIN calls :
           (j # k /\ calls[j].at # "idle" /\ calls[k].at # "idle") =>
               calls[j].st # calls[k].st

\* one call has returned while the other is between two gates, and the two
\* statevectors differ
C11_Witness ==
    /\ Len(callCirc.moments) = 1
    /\ Len(callCirc.moments[1].gates) = 2
    /\ calls[1].at = "done"
    /\ calls[2].at = "loop"
    /\ calls[2].g = 1
    /\ heap[calls[1].st] # heap[calls[2].st]
    /\ calls[1].out.probs # Delta(callCirc.nQubits, 0)

\* C21: after every operation of the editor, setQubits with any integer
\* included, circuit.nQubits is an integer from 1 to 12.
C21_QubitsClamped ==
    circuit.nQubits \in 1 .. QubitCap

\* setQubits was called with a count above the cap and installed the cap
C21_Witness ==
    /\ lastEdit.op = "setQubits"
    /\ lastEdit.n > QubitCap
    /\ circuit.nQubits = QubitCap

\* setQubits was called with a negative count and installed one qubit
C21_WitnessLow ==
    /\ lastEdit.op = "setQubits"
    /\ lastEdit.n < 0
    /\ circuit.nQubits = 1

\* C22: after every change of the Shots field, the shot count handed to
\* sampleCounts is a positive integer of at most 100000.
C22_ShotsInRange ==
    Mounted => view.shots \in 1 .. ShotCap

\* the gates of moment index t of cc that carry the id
GatesWithId(cc, t, id) ==
    IF t + 1 \in 1 .. Len(cc.moments)
    THEN {cc.moments[t + 1].gates[j] : j \in {i \in 1 .. Len(cc.moments[t + 1].gates) :
                                                  cc.moments[t + 1].gates[i].id = id}}
    ELSE {}

\* the gates at the end of moment index t of cc that carry the id: the gate
\* a drop pushed, which an id alone does not tell from another gate of the
\* same id
PushedWithId(cc, t, id) ==
    {g \in GatesWithId(cc, t, id) : g = cc.moments[t + 1].gates[Len(cc.moments[t + 1].gates)]}

\* a CX with control c and target t: distinct rows of an n-qubit circuit
InRangeCX(targets, n) ==
    /\ Len(targets) = 2
    /\ targets[1] # targets[2]
    /\ targets[1] \in 0 .. n - 1
    /\ targets[2] \in 0 .. n - 1

\* the targets keep the offset of the dragged gate and lie in 0 .. n-1
KeepsOffset(targets, dragged, n) ==
    /\ Len(targets) = 2
    /\ targets[2] - targets[1] = dragged[2] - dragged[1]
    /\ targets[1] \in 0 .. n - 1
    /\ targets[2] \in 0 .. n - 1

\* C23: a dropped CX whose control and target are distinct rows of the circuit
\* is placed with the same control-to-target offset and with both rows inside
\* the circuit, for every drop row: by the drop of the editor, and by the
\* placement rule for every control, target and row of circuits up to
\* MaxEdQubits + 1 qubits.
C23_OffsetPreserved ==
    /\ (/\ lastEdit.op = "drop"
        /\ Mounted
        /\ lastEdit.d.type = "CX"
        /\ InRangeCX(lastEdit.d.targets, lastEdit.before.nQubits))
       => \E g \in PushedWithId(circuit, lastEdit.tNew, lastEdit.d.id) :
              KeepsOffset(g.targets, lastEdit.d.targets, circuit.nQubits)
    /\ \A n \in 1 .. MaxEdQubits + 1 :
           \A ctl \in 0 .. n - 1, tgt \in 0 .. n - 1, row \in (0 - 1) .. n :
               ctl # tgt =>
                   KeepsOffset(droppedGate([id |-> 0, type |-> "CX", targets |-> <<ctl, tgt>>],
                                           clamp(row, 0, n - 1), n).targets,
                               <<ctl, tgt>>, n)

\* a CX on rows 0 and 1 was dropped on the last row, where its target would
\* leave the circuit, and was placed one row up
C23_Witness ==
    /\ lastEdit.op = "drop"
    /\ Mounted
    /\ lastEdit.d.type = "CX"
    /\ InRangeCX(lastEdit.d.targets, lastEdit.before.nQubits)
    /\ lastEdit.qNew = circuit.nQubits - 1
    /\ \E g \in PushedWithId(circuit, lastEdit.tNew, lastEdit.d.id) :
           g.targets = <<circuit.nQubits - 2, circuit.nQubits - 1>>

\* C24: a drop right of the last column appends a moment and puts the gate
\* there: the circuit has one moment more than before and the gate is in the
\* moment whose index is the old column count.
C24_DropAtEndAppends ==
    (lastEdit.op = "drop" /\ Mounted /\ lastEdit.right) =>
        /\ Len(circuit.moments) = Len(lastEdit.before.moments) + 1
        /\ GatesWithId(circuit, Len(lastEdit.before.moments), lastEdit.d.id) # {}

\* C25: a drag becomes active only while the press that armed the hold timer
\* is still down: once the press is released, on the canvas or anywhere
\* else, no step makes a drag active for it.
C25_NoDragAfterRelease ==
    [][(~drag.on /\ drag'.on) => pressed]_vars

\* the number of gates of a circuit
GateCount(cc) == Len(DocOrder(cc.moments))

\* the ids of the gates of a circuit
GateIds(cc) == {DocOrder(cc.moments)[p].id : p \in 1 .. Len(DocOrder(cc.moments))}

\* C26: a drop only moves a gate: whatever deleteSelectedGate, removeLast and
\* setQubits did between the start of the drag and the drop, the drop
\* completes without an error, leaves the number of gates unchanged and
\* brings no gate into the circuit that was not in it before the drop.
C26_DropOnlyMoves ==
    lastEdit.op = "drop" =>
        /\ Mounted
        /\ GateCount(circuit) = GateCount(lastEdit.before)
        /\ GateIds(circuit) \subseteq GateIds(lastEdit.before)

\* a gate deleted during its drag was put back by the drop
C26_Reinserted ==
    /\ lastEdit.op = "drop"
    /\ Mounted
    /\ lastEdit.d.id \notin GateIds(lastEdit.before)
    /\ lastEdit.d.id \in GateIds(circuit)

\* C27: whenever a gate is selected, the moment with index selected.t holds
\* a gate with id selected.id.
C27_SelectedExists ==
    (Mounted /\ selected.set) => GatesWithId(circuit, selected.t, selected.id) # {}

\* the number of items, gates and moments, of a circuit
ItemCount(cc) == GateCount(cc) + Len(cc.moments)

\* C28: removeLast removes exactly one item (none from the empty circuit), the
\* circuit value its updater was handed is the same after the update was
\* computed, and the updater run again on that value gives the same result.
C28_RemoveLastPure ==
    lastEdit.op = "removeLast" =>
        /\ ItemCount(circuit) =
               IF ItemCount(lastEdit.before) = 0 THEN 0 ELSE ItemCount(lastEdit.before) - 1
        /\ prevCircuit = lastEdit.before
        /\ removeLast(prevCircuit) = circuit

\* C29: for every valid distribution, every shot count and every value drawn
\* from [0, 1), each key of the histogram is the rendering of an index whose
\* probability is above zero.
C29_NoZeroProbabilityOutcome ==
    IsDistribution(probs) =>
        \A k \in DOMAIN counts :
            \E i \in DOMAIN probs :
                /\ k = BitString(i, QubitsOf(probs))
                /\ ~DLe(probs[i], DZero)

\* C30: in every circuit the editor reaches, the k-th moment carries t = k
\* (counted from 0).
C30_MomentIndex ==
    \A k \in 1 .. Len(circuit.moments) : circuit.moments[k].t = k - 1

\* a gate was dragged from the second moment of a circuit into its first
C30_Witness ==
    /\ lastEdit.op = "drop"
    /\ Mounted
    /\ Len(circuit.moments) >= 2
    /\ lastEdit.d.t = 1
    /\ lastEdit.tNew = 0
    /\ GatesWithId(circuit, 0, lastEdit.d.id) # {}

\* removeLast took the last moment of a circuit that keeps another one
C30_WitnessRemoved ==
    /\ lastEdit.op = "removeLast"
    /\ Len(lastEdit.before.moments) = Len(circuit.moments) + 1
    /\ Len(circuit.moments) >= 1

====
